---- MODULE Spec2Model ----
(***************************************************************************)
(* Control flow of the two demonstration scripts                           *)
(*   src/adk_agenttool_comparison.py      (the "ADK" script)               *)
(*   src/langchain_supervisor_example.py  (the "LangChain" script)         *)
(* run as `python <script>` in one process environment.  The hosted models *)
(* and the two agent frameworks are the environment of the scripts: what   *)
(* the coordinator does with a prompt is an Outcome (the events it streams *)
(* and the exception it raises, if any) chosen without restriction.        *)
(*                                                                         *)
(* SpecADK and SpecLC are the two scripts, each run alone.  Spec runs both *)
(* to compare them: nothing synchronises the two, so their steps come in   *)
(* any order, and what they share is the environment variables and, for    *)
(* each prompt, the outcome the coordinator has for it.  The loop body of  *)
(* the ADK script is a coroutine that is suspended at its awaits, so it is *)
(* several steps; the LangChain loop body awaits nothing and is one step.  *)
(*                                                                         *)
(* Exceptions are the subclasses of Exception; KeyboardInterrupt and the   *)
(* like are outside the model.  os.getenv is read after load_dotenv(), so  *)
(* env is the environment as completed by a .env file.                     *)
(***************************************************************************)
EXTENDS Integers, Sequences, FiniteSets, TLC

\* Longest exception message, in words of the vocabulary Words.
MaxMsgWords == 1

\* Most events the router streams for one prompt.
MaxEvents == 1

VARIABLES
    env,            \* os.environ after load_dotenv(): variable -> value
    lcImportFail,   \* which of the three langchain imports fails (0: none)
    adkPc,          \* position of the ADK script
    adkKey,         \* module variable GOOGLE_API_KEY
    adkSessions,    \* session_service: the sessions it holds
    adkI,           \* loop variable i of demo_adk_agenttool
    adkSession,     \* local variable session of the iteration
    adkRuns,        \* the calls made to runner.run_async, in order
    adkLast,        \* the last stream that ended: its test case and how it ended
    adkLocals,      \* event_count, full_response, agent_called of the iteration
    adkOut,         \* what the ADK script printed
    adkExc,         \* the exception that ended the ADK script, if any
    adkExit,        \* exit status of the ADK script (-1 while it runs)
    lcPc,           \* position of the LangChain script
    lcAvailable,    \* module variable LANGCHAIN_AVAILABLE
    lcNames,        \* module-level names bound so far
    lcModel,        \* module variable model
    lcI,            \* loop variable i of demo_langchain_supervisor
    lcSubmitted,    \* the prompts given to supervisor_agent.invoke, in order
    lcOut,          \* what the LangChain script printed
    lcExc,          \* the exception that ended the LangChain script, if any
    lcExit,         \* exit status of the LangChain script (-1 while it runs)
    plan            \* what the coordinator does with each prompt, once decided

adkVars == <<adkPc, adkKey, adkSessions, adkI, adkSession, adkRuns, adkLast,
             adkLocals, adkOut, adkExc, adkExit>>
lcVars == <<lcPc, lcAvailable, lcNames, lcModel, lcI, lcSubmitted, lcOut,
            lcExc, lcExit>>
vars == <<env, lcImportFail, plan, adkVars, lcVars>>

----------------------------------------------------------------------------
\* Python values

\* None
None == "None"

\* bool(x) for the values that occur: None and "" are false.
Truthy(x) == x # None /\ x # ""

\* a or b
PyOr(a, b) == IF Truthy(a) THEN a ELSE b

\* The sequences over S of length at most n.
BoundedSeq(S, n) == UNION {[1..k -> S] : k \in 0..n}

\* `w in s` for a string s given as its words.
Contains(s, w) == \E k \in 1..Len(s) : s[k] = w

\* s is an initial part of t.
IsPrefix(s, t) == Len(s) <= Len(t) /\ \A k \in 1..Len(s) : s[k] = t[k]

----------------------------------------------------------------------------
\* The process environment

OPENAI_API_KEY == "OPENAI_API_KEY"
ANTHROPIC_API_KEY == "ANTHROPIC_API_KEY"
GOOGLE_API_KEY == "GOOGLE_API_KEY"

\* The variables of the environment: the three keys and one unrelated one.
EnvVars == {OPENAI_API_KEY, ANTHROPIC_API_KEY, GOOGLE_API_KEY, "PATH"}

\* A variable is unset, set to the empty string, or set to something.
Unset == "<unset>"
EnvValues == {Unset, "", "your-key"}
Envs == [EnvVars -> EnvValues]

\* os.getenv(name)
Getenv(e, name) == IF e[name] = Unset THEN None ELSE e[name]

----------------------------------------------------------------------------
\* Exceptions and coordinator outcomes

NONE_PARTS == "'NoneType' object is not iterable"

\* The words exception messages are made of.
Words == {NONE_PARTS, "429", "Quota", "rate"}

\* word.lower()
LowerWord(w) ==
    CASE w = "Quota" -> "quota"
      [] w = NONE_PARTS -> "'nonetype' object is not iterable"
      [] OTHER -> w

\* error_msg.lower()
Lower(s) == [k \in 1..Len(s) |-> LowerWord(s[k])]

\* type(e).__name__ of the exceptions the coordinator raises.
TypeNames == {<<"TypeError">>, <<"ValueError">>, <<"ResourceExhausted">>}

Exceptions == [type : TypeNames, msg : BoundedSeq(Words, MaxMsgWords)]

\* No exception.
NoExc == [type |-> <<>>, msg |-> <<>>]

\* A tool call of an event: its name, in words.
ToolCalls == {[name |-> <<"weather", "agent">>], [name |-> <<"search">>]}

\* One event of the stream run_async yields: its tool calls (none: the
\* attribute is missing, None or empty; or one) and the text of its content
\* (None: no content, no parts or no text).
Events == [tool_calls : {<<>>} \cup {<<c>> : c \in ToolCalls},
           text : {None, "chunk"}]

\* What the coordinator does with one prompt: the events it streams (the
\* LangChain supervisor returns a whole answer and streams nothing) and the
\* exception that ends the call (NoExc: it ends normally).
Outcomes == [events : BoundedSeq(Events, MaxEvents), exc : Exceptions \cup {NoExc}]

\* isinstance(e, TypeError)
IsTypeError(e) == e.type = <<"TypeError">>

\* One line of output: what was printed, and for which test case (0: none).
P(tag, i) == <<tag, i>>

Printed(out, tag) == \E k \in 1..Len(out) : out[k][1] = tag

----------------------------------------------------------------------------
\* The ADK script: src/adk_agenttool_comparison.py

APP_NAME == "ADK AgentTool Comparison Demo"

test_cases == << "What's the weather like in San Francisco?",
                 "I want a workout plan for beginners",
                 "What should I eat for breakfast?" >>

\* Mutant of UserId: the user id without the test case number.
UserId_Constant(i) == <<"demo-user", 0>>

\* f"demo-user-{i}"
UserId(i) == <<"demo-user", i>>

\* session_service.create_session(app_name, user_id, state): the new session.
\* The in-memory service gives every session an id of its own.
CreateSession(sessions, app, user, state) ==
    [id |-> <<"session", Cardinality(sessions) + 1>>,
     app_name |-> app, user_id |-> user, state |-> state]

\* No session yet.
NoSession == [id |-> <<"session", 0>>, app_name |-> "", user_id |-> <<"", 0>>,
              state |-> <<>>]

\* agent_called = None
NoAgent == <<>>

\* event_count = 0, full_response = "", agent_called = None
ADKInitLocals == [event_count |-> 0, full_response |-> <<>>, agent_called |-> NoAgent]

\* The rate-limit test of the `except Exception` handler.
IsRateLimit(e) ==
    \/ Contains(e.type, "ResourceExhausted")
    \/ Contains(e.msg, "429")
    \/ Contains(Lower(e.msg), "quota")
    \/ Contains(Lower(e.msg), "rate")

\* The TypeError the first handler swallows.
IsKnownNoneParts(e) == IsTypeError(e) /\ Contains(e.msg, NONE_PARTS)

\* Mutant of ADKHandle: the final `raise` of each handler is missing.
ADKHandle_Swallow(e) ==
    IF IsTypeError(e) THEN "continue"
    ELSE IF IsRateLimit(e) THEN "break" ELSE "continue"

\* Mutant of ADKHandle: the `except TypeError` clause is missing.
ADKHandle_NoTypeErrorClause(e) == IF IsRateLimit(e) THEN "break" ELSE "raise"

\* What the two except clauses do with exception e once they have printed:
\* "continue" falls through to the end of the loop body, "break" leaves the
\* for loop, "raise" re-raises e out of demo_adk_agenttool.
ADKHandle(e) ==
    IF IsTypeError(e)
    THEN IF Contains(e.msg, NONE_PARTS) THEN "continue" ELSE "raise"
    ELSE IF IsRateLimit(e) THEN "break" ELSE "raise"

\* The tool calls of event ev whose name contains 'agent'.
AgentCalls(ev) ==
    SelectSeq(ev.tool_calls, LAMBDA c : Contains(Lower(c.name), "agent"))

\* The locals after the body of the `async for` has run for event ev.
ADKConsume(loc, ev) ==
    [event_count |-> loc.event_count + 1,
     full_response |-> IF Truthy(ev.text) THEN Append(loc.full_response, ev.text)
                       ELSE loc.full_response,
     agent_called |-> IF AgentCalls(ev) # <<>>
                      THEN AgentCalls(ev)[Len(AgentCalls(ev))].name
                      ELSE loc.agent_called]

\* What the body of the `async for` prints for event ev in test case i.
ADKEventOutput(ev, i) ==
    [k \in 1..Len(AgentCalls(ev)) |-> P("Router called", i)]
    \o (IF Truthy(ev.text) THEN <<P("text", i)>> ELSE <<>>)

\* What follows the stream when it ends normally.
ADKAfterStream(loc, i) ==
    IF loc.agent_called # NoAgent THEN <<P("Agent called", i)>>
    ELSE IF loc.full_response = <<>> THEN <<P("No response received from agent", i)>>
    ELSE <<>>

\* What the except clauses print for exception e.
ADKHandlerOutput(e, loc, i) ==
    IF IsTypeError(e)
    THEN IF Contains(e.msg, NONE_PARTS)
         THEN <<P("Error: Known issue in google-adk library", i)>>
         ELSE <<P("TypeError", i)>>
    ELSE IF IsRateLimit(e)
         THEN <<P("Rate Limit / Quota Error", i)>>
              \o (IF loc.full_response # <<>>
                  THEN <<P("Note: Partial response received", i)>> ELSE <<>>)
         ELSE <<P("Error", i), P("traceback", i)>>

\* What is recorded of the end of the stream of test case i: whether an
\* exception e ended it (NoExc: none did) and what the conditions of the
\* except clauses are for it.
StreamEnded(i, e) ==
    [i |-> i,
     raised |-> e # NoExc,
     typeError |-> IsTypeError(e),
     noneParts |-> Contains(e.msg, NONE_PARTS),
     rateLimit |-> IsRateLimit(e)]

\* What a step of the ADK script leaves alone.
ADKFrame == UNCHANGED <<env, lcImportFail, lcVars>>

\* Module level: load_dotenv, the GOOGLE_API_KEY check, the services, the
\* agents and the runner.
ADKModuleLoad ==
    /\ adkPc = "import"
    /\ LET key == Getenv(env, GOOGLE_API_KEY) IN
       /\ adkKey' = key
       /\ IF ~Truthy(key)
          THEN /\ adkExc' = [type |-> <<"ValueError">>,
                             msg |-> <<"GOOGLE_API_KEY not found">>]
               /\ adkPc' = "raised"
               /\ adkExit' = 1
          ELSE /\ adkPc' = "main"
               /\ UNCHANGED <<adkExc, adkExit>>
    /\ adkSessions' = {}
    /\ UNCHANGED <<adkI, adkSession, adkRuns, adkLast, adkLocals, adkOut, plan>>
    /\ ADKFrame

\* The `if __name__ == "__main__"` block.
ADKMain ==
    /\ adkPc = "main"
    /\ IF ~Truthy(Getenv(env, GOOGLE_API_KEY))
       THEN /\ adkOut' = adkOut \o
                   <<P("Error: GOOGLE_API_KEY environment variable not set", 0),
                     P("Please set it", 0)>>
            /\ adkPc' = "exited"
            /\ adkExit' = 1
       ELSE /\ adkPc' = "demo"
            /\ UNCHANGED <<adkOut, adkExit>>
    /\ UNCHANGED <<adkKey, adkSessions, adkI, adkSession, adkRuns, adkLast,
                   adkLocals, adkExc, plan>>
    /\ ADKFrame

\* demo_adk_agenttool up to the for loop.
ADKDemoStart ==
    /\ adkPc = "demo"
    /\ adkOut' = adkOut \o <<P("GOOGLE ADK AGENTTOOL PATTERN", 0)>>
    /\ adkI' = 1
    /\ adkPc' = "loop"
    /\ UNCHANGED <<adkKey, adkSessions, adkSession, adkRuns, adkLast, adkLocals,
                   adkExc, adkExit, plan>>
    /\ ADKFrame

\* The loop body up to the end of `await session_service.create_session`.
ADKCreateSession ==
    /\ adkPc = "loop"
    /\ LET session == CreateSession(adkSessions, APP_NAME, UserId(adkI), <<>>) IN
       /\ adkSessions' = adkSessions \cup {session}
       /\ adkSession' = session
    /\ adkOut' = adkOut \o <<P("TEST CASE", adkI)>>
    /\ adkPc' = "session"
    /\ UNCHANGED <<adkKey, adkI, adkRuns, adkLast, adkLocals, adkExc, adkExit, plan>>
    /\ ADKFrame

\* The content, the three locals, and the call of runner.run_async: the
\* coroutine waits for the first event.
ADKSubmit ==
    /\ adkPc = "session"
    /\ adkLocals' = ADKInitLocals
    /\ adkRuns' = Append(adkRuns, [user_id |-> UserId(adkI),
                                   session_id |-> adkSession.id,
                                   new_message |-> test_cases[adkI]])
    /\ adkPc' = "stream"
    /\ UNCHANGED <<adkKey, adkSessions, adkI, adkSession, adkLast, adkOut,
                   adkExc, adkExit, plan>>
    /\ ADKFrame

\* The stream yields event ev: one pass through the body of the `async for`.
ADKEvent(ev) ==
    /\ adkPc = "stream"
    /\ adkLocals' = ADKConsume(adkLocals, ev)
    /\ adkOut' = adkOut \o ADKEventOutput(ev, adkI)
    /\ UNCHANGED <<adkPc, adkKey, adkSessions, adkI, adkSession, adkRuns, adkLast,
                   adkExc, adkExit>>

\* The stream ends: the rest of the try body and of the loop body.
ADKStreamEnd ==
    /\ adkPc = "stream"
    /\ adkLast' = StreamEnded(adkI, NoExc)
    /\ adkOut' = adkOut \o ADKAfterStream(adkLocals, adkI) \o <<P("----", adkI)>>
    /\ adkI' = IF adkI < Len(test_cases) THEN adkI + 1 ELSE adkI
    /\ adkPc' = IF adkI < Len(test_cases) THEN "loop" ELSE "summary"
    /\ UNCHANGED <<adkKey, adkSessions, adkSession, adkRuns, adkLocals, adkExc, adkExit>>

\* The stream raises e: the except clauses and what they lead to.
ADKStreamRaise(e) ==
    /\ adkPc = "stream"
    /\ adkLast' = StreamEnded(adkI, e)
    /\ adkOut' = adkOut \o ADKHandlerOutput(e, adkLocals, adkI)
             \o (IF ADKHandle(e) = "continue" THEN <<P("----", adkI)>> ELSE <<>>)
    /\ CASE ADKHandle(e) = "continue" ->
              /\ adkI' = IF adkI < Len(test_cases) THEN adkI + 1 ELSE adkI
              /\ adkPc' = IF adkI < Len(test_cases) THEN "loop" ELSE "summary"
              /\ UNCHANGED <<adkExc, adkExit>>
         [] ADKHandle(e) = "break" ->
              /\ adkPc' = "summary"
              /\ UNCHANGED <<adkI, adkExc, adkExit>>
         [] ADKHandle(e) = "raise" ->
              /\ adkPc' = "raised"
              /\ adkExc' = e
              /\ adkExit' = 1
              /\ UNCHANGED adkI
    /\ UNCHANGED <<adkKey, adkSessions, adkSession, adkRuns, adkLocals>>

\* What the router does next given that its outcome for the prompt is o:
\* the next event of o, or the end of the stream.
ADKStream(o) ==
    IF adkLocals.event_count < Len(o.events)
    THEN ADKEvent(o.events[adkLocals.event_count + 1])
    ELSE IF o.exc = NoExc THEN ADKStreamEnd
    ELSE ADKStreamRaise(o.exc)

\* The prints after the loop.
ADKSummary ==
    /\ adkPc = "summary"
    /\ adkOut' = adkOut \o <<P("KEY POINTS", 0)>>
    /\ adkPc' = "done"
    /\ adkExit' = 0
    /\ UNCHANGED <<adkKey, adkSessions, adkI, adkSession, adkRuns, adkLast,
                   adkLocals, adkExc, plan>>
    /\ ADKFrame

----------------------------------------------------------------------------
\* The LangChain script: src/langchain_supervisor_example.py

\* The name of `model` before the assignment that binds it.
Unbound == "<unbound>"

\* Mutant of SelectModel: a fourth variable is consulted when no key is set.
SelectModel_FourthVariable(e) ==
    IF Truthy(Getenv(e, OPENAI_API_KEY)) THEN "openai:gpt-4o-mini"
    ELSE IF Truthy(Getenv(e, ANTHROPIC_API_KEY))
         THEN "anthropic:claude-3-5-haiku-20241022"
    ELSE IF Truthy(Getenv(e, GOOGLE_API_KEY)) \/ Truthy(Getenv(e, "PATH"))
         THEN "google_genai:gemini-2.5-flash-lite"
    ELSE None

\* The model the module chooses from the environment e: api_key is the first
\* non-empty key, and the branch taken re-reads the keys in the same order.
SelectModel(e) ==
    LET api_key == PyOr(Getenv(e, OPENAI_API_KEY),
                        PyOr(Getenv(e, ANTHROPIC_API_KEY), Getenv(e, GOOGLE_API_KEY)))
    IN  IF Truthy(api_key)
        THEN IF Truthy(Getenv(e, OPENAI_API_KEY)) THEN "openai:gpt-4o-mini"
             ELSE IF Truthy(Getenv(e, ANTHROPIC_API_KEY))
                  THEN "anthropic:claude-3-5-haiku-20241022"
             ELSE IF Truthy(Getenv(e, GOOGLE_API_KEY))
                  THEN "google_genai:gemini-2.5-flash-lite"
             ELSE None
        ELSE None

\* NameError: name 'n' is not defined
NameError(n) == [type |-> <<"NameError">>, msg |-> <<n>>]

\* What a step of the LangChain script leaves alone.
LCFrame == UNCHANGED <<env, lcImportFail, adkVars>>

\* The try/except ImportError around the three langchain imports: the
\* imports before the failing one bind their names.
LCImport ==
    /\ lcPc = "import"
    /\ lcNames' = (IF lcImportFail \in {0, 2, 3} THEN {"create_agent"} ELSE {})
             \cup (IF lcImportFail \in {0, 3} THEN {"tool"} ELSE {})
             \cup (IF lcImportFail = 0 THEN {"init_chat_model"} ELSE {})
    /\ lcAvailable' = (lcImportFail = 0)
    /\ lcOut' = IF lcImportFail = 0 THEN lcOut
                ELSE lcOut \o <<P("LangChain not installed. Install with", 0)>>
    /\ lcPc' = "tools"
    /\ UNCHANGED <<lcModel, lcI, lcSubmitted, lcExc, lcExit>>
    /\ UNCHANGED plan
    /\ LCFrame

\* The three function tools, each decorated with @tool.
LCDefineTools ==
    /\ lcPc = "tools"
    /\ IF "tool" \notin lcNames
       THEN /\ lcExc' = NameError("tool")
            /\ lcPc' = "raised"
            /\ lcExit' = 1
            /\ UNCHANGED lcNames
       ELSE /\ lcNames' = lcNames \cup
                   {"get_weather_info", "create_workout_plan", "suggest_meal"}
            /\ lcPc' = "agents"
            /\ UNCHANGED <<lcExc, lcExit>>
    /\ UNCHANGED <<lcAvailable, lcModel, lcI, lcSubmitted, lcOut>>
    /\ UNCHANGED plan
    /\ LCFrame

\* The `if LANGCHAIN_AVAILABLE:` block: the model, and under `if model:` the
\* three agents, their wrappers and the supervisor.
LCBuildAgents ==
    /\ lcPc = "agents"
    /\ IF lcAvailable
       THEN LET model == SelectModel(env) IN
            /\ lcModel' = model
            /\ lcNames' = lcNames \cup {"api_key", "model"} \cup
                   (IF Truthy(model)
                    THEN {"weather_agent", "fitness_agent", "nutrition_agent",
                          "get_weather_help", "get_fitness_advice",
                          "get_nutrition_help", "supervisor_agent"}
                    ELSE {})
       ELSE UNCHANGED <<lcModel, lcNames>>
    /\ lcPc' = "main"
    /\ UNCHANGED <<lcAvailable, lcI, lcSubmitted, lcOut, lcExc, lcExit>>
    /\ UNCHANGED plan
    /\ LCFrame

\* The `if __name__ == "__main__"` block.  asyncio.run raises RuntimeError
\* only inside a running event loop, which a script does not have.
LCMain ==
    /\ lcPc = "main"
    /\ IF lcAvailable
       THEN /\ lcPc' = "demo"
            /\ UNCHANGED <<lcOut, lcExit>>
       ELSE /\ lcOut' = lcOut \o <<P("LangChain not installed.", 0),
                                   P("To run this example", 0)>>
            /\ lcPc' = "done"
            /\ lcExit' = 0
    /\ UNCHANGED <<lcAvailable, lcNames, lcModel, lcI, lcSubmitted, lcExc>>
    /\ UNCHANGED plan
    /\ LCFrame

\* Mutant of LCDemoStart: the `if not model:` return is missing.
LCDemoStart_NoModelCheck ==
    /\ lcPc = "demo"
    /\ IF ~lcAvailable
       THEN /\ lcOut' = lcOut \o <<P("LANGCHAIN SUPERVISOR PATTERN", 0),
                                   P("LangChain is not installed.", 0)>>
            /\ lcPc' = "done"
            /\ lcExit' = 0
            /\ UNCHANGED lcI
       ELSE /\ lcOut' = lcOut \o <<P("LANGCHAIN SUPERVISOR PATTERN", 0),
                                   P("This demonstrates the LANGCHAIN approach", 0)>>
            /\ lcI' = 1
            /\ lcPc' = "loop"
            /\ UNCHANGED lcExit
    /\ UNCHANGED <<lcAvailable, lcNames, lcModel, lcSubmitted, lcExc>>
    /\ UNCHANGED plan
    /\ LCFrame

\* demo_langchain_supervisor up to the for loop.
LCDemoStart ==
    /\ lcPc = "demo"
    /\ IF ~lcAvailable
       THEN /\ lcOut' = lcOut \o <<P("LANGCHAIN SUPERVISOR PATTERN", 0),
                                   P("LangChain is not installed.", 0)>>
            /\ lcPc' = "done"
            /\ lcExit' = 0
            /\ UNCHANGED <<lcI, lcExc>>
       ELSE IF "model" \notin lcNames
       THEN /\ lcOut' = lcOut \o <<P("LANGCHAIN SUPERVISOR PATTERN", 0)>>
            /\ lcExc' = NameError("model")
            /\ lcPc' = "raised"
            /\ lcExit' = 1
            /\ UNCHANGED lcI
       ELSE IF ~Truthy(lcModel)
       THEN /\ lcOut' = lcOut \o <<P("LANGCHAIN SUPERVISOR PATTERN", 0),
                                   P("No API key found.", 0)>>
            /\ lcPc' = "done"
            /\ lcExit' = 0
            /\ UNCHANGED <<lcI, lcExc>>
       ELSE /\ lcOut' = lcOut \o <<P("LANGCHAIN SUPERVISOR PATTERN", 0),
                                   P("This demonstrates the LANGCHAIN approach", 0)>>
            /\ lcI' = 1
            /\ lcPc' = "loop"
            /\ UNCHANGED <<lcExc, lcExit>>
    /\ UNCHANGED <<lcAvailable, lcNames, lcModel, lcSubmitted>>
    /\ UNCHANGED plan
    /\ LCFrame

\* Mutant of LCIterate: the except clause prints and re-raises.
LCIterate_Reraise(e) ==
    /\ lcPc = "loop"
    /\ LET i == lcI
           bound == "supervisor_agent" \in lcNames
           err == IF bound THEN e ELSE NameError("supervisor_agent")
       IN
       /\ lcSubmitted' = IF bound THEN Append(lcSubmitted, test_cases[i])
                         ELSE lcSubmitted
       /\ IF err = NoExc
          THEN /\ lcOut' = lcOut \o <<P("TEST CASE", i), P("Response", i), P("----", i)>>
               /\ lcI' = IF i < Len(test_cases) THEN i + 1 ELSE i
               /\ lcPc' = IF i < Len(test_cases) THEN "loop" ELSE "summary"
               /\ UNCHANGED <<lcExc, lcExit>>
          ELSE /\ lcOut' = lcOut \o <<P("TEST CASE", i), P("Error", i)>>
               /\ lcPc' = "raised"
               /\ lcExc' = err
               /\ lcExit' = 1
               /\ UNCHANGED lcI
    /\ UNCHANGED <<lcAvailable, lcNames, lcModel>>

\* One iteration of the for loop, supervisor_agent.invoke raising e (NoExc:
\* returning an answer).  An unbound supervisor_agent is a NameError inside
\* the try.  The function awaits nothing: the iteration is one step.
LCIterate(e) ==
    /\ lcPc = "loop"
    /\ LET i == lcI
           bound == "supervisor_agent" \in lcNames
           err == IF bound THEN e ELSE NameError("supervisor_agent")
       IN
       /\ lcSubmitted' = IF bound THEN Append(lcSubmitted, test_cases[i])
                         ELSE lcSubmitted
       /\ lcOut' = lcOut \o <<P("TEST CASE", i)>>
             \o (IF err = NoExc THEN <<P("Response", i)>> ELSE <<P("Error", i)>>)
             \o <<P("----", i)>>
       /\ lcI' = IF i < Len(test_cases) THEN i + 1 ELSE i
       /\ lcPc' = IF i < Len(test_cases) THEN "loop" ELSE "summary"
    /\ UNCHANGED <<lcAvailable, lcNames, lcModel, lcExc, lcExit>>

\* The prints after the loop.
LCSummary ==
    /\ lcPc = "summary"
    /\ lcOut' = lcOut \o <<P("KEY POINTS", 0)>>
    /\ lcPc' = "done"
    /\ lcExit' = 0
    /\ UNCHANGED <<lcAvailable, lcNames, lcModel, lcI, lcSubmitted, lcExc>>
    /\ UNCHANGED plan
    /\ LCFrame

----------------------------------------------------------------------------
\* The scripts and their environment

\* A script that has ended.
Finished(pc) == pc \in {"done", "raised", "exited"}

\* The coordinator has not been asked yet.
Undecided == [events |-> <<>>, exc |-> [type |-> <<"?">>, msg |-> <<>>]]

Init ==
    /\ env \in Envs
    /\ lcImportFail \in 0..3
    /\ plan = [k \in 1..Len(test_cases) |-> Undecided]
    /\ adkPc = "import"
    /\ adkKey = None
    /\ adkSessions = {}
    /\ adkI = 0
    /\ adkSession = NoSession
    /\ adkRuns = <<>>
    /\ adkLast = StreamEnded(0, NoExc)
    /\ adkLocals = ADKInitLocals
    /\ adkOut = <<>>
    /\ adkExc = NoExc
    /\ adkExit = -1
    /\ lcPc = "import"
    /\ lcAvailable = FALSE
    /\ lcNames = {}
    /\ lcModel = Unbound
    /\ lcI = 0
    /\ lcSubmitted = <<>>
    /\ lcOut = <<>>
    /\ lcExc = NoExc
    /\ lcExit = -1

\* The ADK script run alone: the router streams any events, at most MaxEvents
\* for a prompt, and ends the stream normally or with any exception.
ADKRouter ==
    /\ adkPc = "stream"
    /\ \/ \E ev \in Events : adkLocals.event_count < MaxEvents /\ ADKEvent(ev)
       \/ ADKStreamEnd
       \/ \E e \in Exceptions : ADKStreamRaise(e)
    /\ UNCHANGED plan
    /\ ADKFrame

NextADK ==
    \/ ADKModuleLoad
    \/ ADKMain
    \/ ADKDemoStart
    \/ ADKCreateSession
    \/ ADKSubmit
    \/ ADKRouter
    \/ ADKSummary

\* The LangChain script plays no part: its imports are taken to succeed and
\* the variables only it reads are unset.
InitADK ==
    /\ Init
    /\ lcImportFail = 0
    /\ \A v \in EnvVars \ {GOOGLE_API_KEY} : env[v] = Unset

SpecADK == InitADK /\ [][NextADK]_vars

\* The LangChain script run alone: the supervisor answers or raises any
\* exception.
LCSupervisor ==
    /\ \E e \in Exceptions \cup {NoExc} : LCIterate(e)
    /\ UNCHANGED plan
    /\ LCFrame

NextLC ==
    \/ LCImport
    \/ LCDefineTools
    \/ LCBuildAgents
    \/ LCMain
    \/ LCDemoStart
    \/ LCSupervisor
    \/ LCSummary

SpecLC == Init /\ [][NextLC]_vars

\* The outcomes the coordinator chooses from when the two scripts are run
\* on the same outcomes: an answer, and one exception for each way the ADK
\* except clauses go.
PlanOutcomes ==
    { [events |-> <<[tool_calls |-> <<[name |-> <<"weather", "agent">>]>>,
                     text |-> "chunk"]>>,
       exc |-> NoExc],
      [events |-> <<>>, exc |-> [type |-> <<"TypeError">>, msg |-> <<NONE_PARTS>>]],
      [events |-> <<>>, exc |-> [type |-> <<"TypeError">>, msg |-> <<>>]],
      [events |-> <<[tool_calls |-> <<>>, text |-> "chunk"]>>,
       exc |-> [type |-> <<"ResourceExhausted">>, msg |-> <<"429">>]],
      [events |-> <<>>, exc |-> [type |-> <<"ValueError">>, msg |-> <<>>]] }

\* The outcomes prompt k can have: any, until one of the scripts has
\* submitted it, and then that one.
Choices(k) == IF plan[k] = Undecided THEN PlanOutcomes ELSE {plan[k]}

\* The router of the ADK script goes on with the outcome of its prompt.
PlannedRouter ==
    /\ adkPc = "stream"
    /\ \E o \in Choices(adkI) :
          /\ plan' = [plan EXCEPT ![adkI] = o]
          /\ ADKStream(o)
    /\ ADKFrame

\* The supervisor of the LangChain script gives the outcome of its prompt.
PlannedSupervisor ==
    /\ lcPc = "loop"
    /\ \E o \in Choices(lcI) :
          /\ plan' = [plan EXCEPT ![lcI] = o]
          /\ LCIterate(o.exc)
    /\ LCFrame

\* The two scripts, each run on its own and in any order of steps, in the
\* same environment and with the same outcome for the same prompt.
Next ==
    \/ ADKModuleLoad
    \/ ADKMain
    \/ ADKDemoStart
    \/ ADKCreateSession
    \/ ADKSubmit
    \/ PlannedRouter
    \/ ADKSummary
    \/ LCImport
    \/ LCDefineTools
    \/ LCBuildAgents
    \/ LCMain
    \/ LCDemoStart
    \/ PlannedSupervisor
    \/ LCSummary

Spec == Init /\ [][Next]_vars

----------------------------------------------------------------------------
\* Properties

\* The prompts given to runner.run_async, in order.
ADKSubmitted == [k \in 1..Len(adkRuns) |-> adkRuns[k].new_message]

\* None of the three API keys has a non-empty value in e.
NoKey(e) ==
    \A v \in {OPENAI_API_KEY, ANTHROPIC_API_KEY, GOOGLE_API_KEY} : ~Truthy(Getenv(e, v))

\* The environments e1 and e2 give the variables of R the same values.
AgreeOn(e1, e2, R) == \A v \in R : e1[v] = e2[v]

\* The variables each script passes to os.getenv.
ADKReads == {GOOGLE_API_KEY}
LCReads == {OPENAI_API_KEY, ANTHROPIC_API_KEY, GOOGLE_API_KEY}

\* C1: in the LangChain demo with a model configured, the prompts submitted
\* so far are always the first ones of the list, in order and once each; when
\* the script has ended, all three were submitted whatever their outcomes,
\* each got its response or its error printed, and the KEY POINTS summary is
\* the last thing printed.
C1_AllPromptsSubmitted ==
    /\ IsPrefix(lcSubmitted, test_cases)
    /\ (Finished(lcPc) /\ lcModel \notin {Unbound, None}) =>
          /\ lcPc = "done"
          /\ lcExc = NoExc
          /\ lcSubmitted = test_cases
          /\ lcOut[Len(lcOut)] = P("KEY POINTS", 0)
          /\ \A i \in 1..Len(test_cases) :
                Cardinality({k \in 1..Len(lcOut) :
                    lcOut[k] \in {P("Response", i), P("Error", i)}}) = 1

\* C1 witness: the run ended with the summary after the first and the last
\* prompt raised and the second was answered.
C1_Witness ==
    /\ lcPc = "done"
    /\ lcSubmitted = test_cases
    /\ \E a, b, c \in 1..Len(lcOut) :
          /\ a < b /\ b < c /\ c < Len(lcOut)
          /\ lcOut[a] = P("Error", 1)
          /\ lcOut[b] = P("Response", 2)
          /\ lcOut[c] = P("Error", 3)
    /\ lcOut[Len(lcOut)] = P("KEY POINTS", 0)

\* The stream of a test case was ended by an exception the `except
\* Exception` clause takes for a rate-limit/quota error.
EndedByRateLimit == adkLast.raised /\ ~adkLast.typeError /\ adkLast.rateLimit

\* The stream of a test case was ended by the TypeError the `except
\* TypeError` clause takes for the known issue.
EndedByKnownIssue == adkLast.raised /\ adkLast.typeError /\ adkLast.noneParts

\* C2: after a rate-limit/quota error (caught by `except Exception`) in a
\* test case that is not the last, the ADK loop goes on with the next test case.
C2_RateLimitContinues ==
    (/\ adkLast.i >= 1
     /\ adkLast.i < Len(test_cases)
     /\ EndedByRateLimit)
    => (adkPc \in {"loop", "session", "stream"} /\ adkI = adkLast.i + 1)

\* Both demos have run their loops and both scripts have ended.
BothRan ==
    /\ Finished(adkPc) /\ Finished(lcPc)
    /\ adkRuns # <<>> /\ lcSubmitted # <<>>

\* C3 as stated: given the same outcomes, the two demos submit the same
\* prompts, and both reach the KEY POINTS summary or neither does.
C3_SameControlFlow ==
    BothRan =>
       /\ ADKSubmitted = lcSubmitted
       /\ Printed(adkOut, "KEY POINTS") <=> Printed(lcOut, "KEY POINTS")

\* An outcome after which the ADK loop goes on: an answer, or the known
\* NoneType TypeError.
Benign(o) == o.exc = NoExc \/ IsKnownNoneParts(o.exc)

\* The first prompt whose outcome is not benign (0: there is none).
FirstOther ==
    IF \A k \in 1..Len(test_cases) : Benign(plan[k]) THEN 0
    ELSE CHOOSE k \in 1..Len(test_cases) :
            ~Benign(plan[k]) /\ \A j \in 1..(k - 1) : Benign(plan[j])

\* C3 amended: given the same outcomes, the prompts the ADK demo submits are
\* the first ones the LangChain demo submits; the LangChain demo submits all
\* three and reaches its summary; the ADK demo does the same when every
\* outcome is an answer or the known NoneType TypeError, and otherwise the
\* first other exception is its last prompt, with the summary reached only
\* if that exception is a rate-limit error that is no TypeError.
C3_ADKPrefixOfLangChain ==
    /\ IsPrefix(ADKSubmitted, test_cases) /\ IsPrefix(lcSubmitted, test_cases)
    /\ \A k \in 1..Len(test_cases) :
          (k <= Len(lcSubmitted) \/ (k <= adkLast.i)) => plan[k] \in PlanOutcomes
    /\ PlanOutcomes \subseteq Outcomes
    /\ BothRan =>
          /\ IsPrefix(ADKSubmitted, lcSubmitted)
          /\ lcSubmitted = test_cases
          /\ Printed(lcOut, "KEY POINTS")
          /\ FirstOther = 0 =>
                (ADKSubmitted = lcSubmitted /\ Printed(adkOut, "KEY POINTS"))
          /\ FirstOther # 0 =>
                /\ Len(ADKSubmitted) = FirstOther
                /\ Printed(adkOut, "KEY POINTS") <=>
                      (~IsTypeError(plan[FirstOther].exc)
                          /\ IsRateLimit(plan[FirstOther].exc))

\* C3 witness: both scripts ended with their summaries after the same three
\* prompts, one of which raised the known NoneType TypeError.
C3_Witness ==
    /\ BothRan
    /\ ADKSubmitted = test_cases /\ lcSubmitted = test_cases
    /\ \E k \in 1..Len(test_cases) : IsKnownNoneParts(plan[k].exc)
    /\ Printed(adkOut, "Error: Known issue in google-adk library")
    /\ Printed(adkOut, "KEY POINTS") /\ Printed(lcOut, "KEY POINTS")

\* C4: run with GOOGLE_API_KEY unset or empty, the ADK script prints
\* 'Error: GOOGLE_API_KEY environment variable not set', exits with status 1
\* and never starts the demo.
C4_MissingKeyMessage ==
    (Finished(adkPc) /\ ~Truthy(Getenv(env, GOOGLE_API_KEY))) =>
       /\ Printed(adkOut, "Error: GOOGLE_API_KEY environment variable not set")
       /\ adkExit = 1
       /\ adkRuns = <<>>
       /\ ~Printed(adkOut, "GOOGLE ADK AGENTTOOL PATTERN")

\* C5: when a langchain import fails, the LangChain script ends normally
\* after printing the install instructions: nothing is raised, no agent is
\* built and none is invoked.
C5_ImportFailureEndsNormally ==
    (Finished(lcPc) /\ lcImportFail # 0) =>
       /\ lcPc = "done"
       /\ lcExc = NoExc
       /\ lcExit = 0
       /\ Printed(lcOut, "To run this example")
       /\ "supervisor_agent" \notin lcNames
       /\ lcSubmitted = <<>>

\* C6: with LangChain importable and no non-empty API key, the LangChain
\* script prints 'No API key found', submits nothing and raises nothing; and
\* the loop that invokes supervisor_agent is entered only with
\* supervisor_agent bound and model truthy.
C6_NoKeyNoInvoke ==
    /\ (Finished(lcPc) /\ lcImportFail = 0 /\ NoKey(env)) =>
          /\ lcPc = "done"
          /\ lcExc = NoExc
          /\ Printed(lcOut, "No API key found.")
          /\ ~Printed(lcOut, "TEST CASE")
          /\ lcSubmitted = <<>>
    /\ (lcPc \in {"loop", "summary"} \/ Printed(lcOut, "TEST CASE")) =>
          /\ "supervisor_agent" \in lcNames
          /\ lcModel \notin {Unbound, None, ""}

\* C6 witness: the script ended on the 'No API key found' message with one
\* key unset, one empty and the third unset or empty.
C6_Witness ==
    /\ lcPc = "done"
    /\ lcImportFail = 0
    /\ NoKey(env)
    /\ env[OPENAI_API_KEY] = "" /\ env[GOOGLE_API_KEY] = Unset
    /\ Printed(lcOut, "No API key found.")

\* C7 as stated: the model the LangChain script uses is a function of at
\* most two environment variables.
C7_AtMostTwoVariables ==
    (lcPc = "main" /\ lcAvailable) =>
       \E R \in SUBSET EnvVars :
          /\ Cardinality(R) <= 2
          /\ \A e2 \in Envs : AgreeOn(env, e2, R) => SelectModel(e2) = lcModel

\* C7 amended: the ADK script reads one environment variable and the
\* LangChain script three; whether the ADK script gets past its module level
\* and which model the LangChain script uses are the same in every
\* environment that agrees on those variables.
C7_OnlyKeysMatter ==
    /\ Cardinality(ADKReads) = 1 /\ Cardinality(LCReads) = 3
    /\ (adkPc = "main") =>
          \A e2 \in Envs : AgreeOn(env, e2, ADKReads) =>
             (Getenv(e2, GOOGLE_API_KEY) = adkKey /\ Truthy(Getenv(e2, GOOGLE_API_KEY)))
    /\ (adkPc = "raised" /\ adkRuns = <<>>) =>
          \A e2 \in Envs : AgreeOn(env, e2, ADKReads) =>
             (Getenv(e2, GOOGLE_API_KEY) = adkKey /\ ~Truthy(Getenv(e2, GOOGLE_API_KEY)))
    /\ (lcPc = "main" /\ lcAvailable) =>
          \A e2 \in Envs : AgreeOn(env, e2, LCReads) => SelectModel(e2) = lcModel

\* C7 witness: the third key alone decided the model, with the unrelated
\* variable set.
C7_Witness ==
    /\ lcPc = "main" /\ lcAvailable
    /\ lcModel = "google_genai:gemini-2.5-flash-lite"
    /\ env["PATH"] = "your-key"
    /\ adkPc = "main"

\* C8: an exception of the router that is neither the known NoneType
\* TypeError nor a rate-limit error is printed and re-raised out of the ADK
\* demo: that test case is the last one submitted, the exception that ends
\* the script is the one of the stream, and the summary is not printed.  No
\* prompt is submitted twice, and a script ended by an exception printed no
\* summary.
C8_OtherErrorsPropagate ==
    /\ (/\ adkLast.i >= 1
        /\ adkLast.raised
        /\ ~EndedByKnownIssue
        /\ ~EndedByRateLimit) =>
          /\ adkPc = "raised"
          /\ adkExc # NoExc
          /\ StreamEnded(adkLast.i, adkExc) = adkLast
          /\ adkExit = 1
          /\ Len(adkRuns) = adkLast.i
          /\ adkOut[Len(adkOut)] \in {P("TypeError", adkLast.i),
                                      P("traceback", adkLast.i)}
          /\ ~Printed(adkOut, "KEY POINTS")
    /\ IsPrefix(ADKSubmitted, test_cases)
    /\ adkPc = "raised" => ~Printed(adkOut, "KEY POINTS")

\* C8 witness: the stream of the second test case, after an event, raised a
\* ValueError with an empty message and the script ended with it.
C8_Witness ==
    /\ adkPc = "raised"
    /\ Len(adkRuns) = 2
    /\ adkLast.i = 2 /\ adkLast.raised
    /\ adkLocals.event_count = 1
    /\ adkExc = [type |-> <<"ValueError">>, msg |-> <<>>]

\* C9: every test case of the ADK demo runs in a session of its own, made
\* for user demo-user-i with an empty state and the application's name
\* before the router is run, and run_async gets that user id and that
\* session's id; no two test cases share a user id or a session id; the
\* event count, response text and agent of an iteration are those of its own
\* stream.
C9_OwnSession ==
    /\ Cardinality(adkSessions) =
          Len(adkRuns) + (IF adkPc = "session" THEN 1 ELSE 0)
    /\ adkPc = "session" =>
          /\ adkSession \in adkSessions
          /\ adkSession.user_id = <<"demo-user", adkI>>
          /\ \A k \in 1..Len(adkRuns) : adkRuns[k].session_id # adkSession.id
    /\ \A k \in 1..Len(adkRuns) :
          /\ adkRuns[k].user_id = <<"demo-user", k>>
          /\ adkRuns[k].new_message = test_cases[k]
          /\ \E s \in adkSessions :
                /\ s.id = adkRuns[k].session_id
                /\ s.user_id = adkRuns[k].user_id
                /\ s.state = <<>>
                /\ s.app_name = APP_NAME
    /\ \A j, k \in 1..Len(adkRuns) :
          j # k => /\ adkRuns[j].user_id # adkRuns[k].user_id
                   /\ adkRuns[j].session_id # adkRuns[k].session_id
    /\ \A s, t \in adkSessions : s.id = t.id => s = t
    /\ adkLocals.event_count <= MaxEvents
    /\ Len(adkLocals.full_response) <= adkLocals.event_count
    /\ adkLocals.event_count = 0 => adkLocals.agent_called = NoAgent

\* C9 witness: three test cases ran in three sessions, the last with an
\* event that called an agent and had text.
C9_Witness ==
    /\ Len(adkRuns) = 3
    /\ Cardinality(adkSessions) = 3
    /\ adkLocals.agent_called # NoAgent
    /\ adkLocals.full_response # <<>>
    /\ adkPc = "done"

====
